---- MODULE Spec2Model ----
(***************************************************************************)
(* The useForm hook of src/src/hooks/useForm.ts as a state machine.        *)
(*                                                                         *)
(* formState is the React state of the hook: every setFormState updater    *)
(* is applied, in call order, to the latest state.  rendered is what the   *)
(* closures of the latest render captured: formState.values (read by       *)
(* validateForm and handleSubmit) and config.initialValues (read by        *)
(* resetForm).  Operations called one after the other in one event handler *)
(* run with no Render step between them.                                   *)
(***************************************************************************)
EXTENDS Integers, Sequences, FiniteSets, TLC

VARIABLES formState, rendered, config, inFlight, submitCalls, last

vars == <<formState, rendered, config, inFlight, submitCalls, last>>

-----------------------------------------------------------------------------
(* Bounds of the model *)

\* handleSubmit is not called once submitCount has reached this
MaxSubmitCount == 2

\* no more than this many invocations of onSubmit are awaited at once
MaxInFlight == 2

-----------------------------------------------------------------------------
(* JavaScript values held by the fields: strings (sequences of characters),  *)
(* numbers, NaN and booleans, all records of one shape                       *)

Str(chars) == [kind |-> "string", s |-> chars, n |-> 0, b |-> FALSE]
Num(i) == [kind |-> "number", s |-> <<>>, n |-> i, b |-> FALSE]
NaN == [kind |-> "nan", s |-> <<>>, n |-> 0, b |-> FALSE]
Bool(x) == [kind |-> "boolean", s |-> <<>>, n |-> 0, b |-> x]

\* an optional string: submitError, errors[field]
Undefined == [defined |-> FALSE, text |-> ""]
Msg(m) == [defined |-> TRUE, text |-> m]

\* !!x of an optional string
Truthy(x) == x.defined /\ x.text # ""

\* the object {}
EmptyObject == [k \in {} |-> Undefined]

\* { ...obj, [key]: value }
Put(obj, key, value) ==
  [k \in DOMAIN obj \cup {key} |-> IF k = key THEN value ELSE obj[k]]

\* { ...obj, ...more }
Merge(obj, more) ==
  [k \in DOMAIN obj \cup DOMAIN more |-> IF k \in DOMAIN more THEN more[k] ELSE obj[k]]

Digits == {"0", "1", "2", "3", "4", "5", "6", "7", "8", "9"}

UpperCase == {"A", "B", "C", "D", "E", "F", "G", "H", "I", "J", "K", "L", "M",
              "N", "O", "P", "Q", "R", "S", "T", "U", "V", "W", "X", "Y", "Z"}

DigitValue(c) ==
  CASE c = "0" -> 0 [] c = "1" -> 1 [] c = "2" -> 2 [] c = "3" -> 3 [] c = "4" -> 4
    [] c = "5" -> 5 [] c = "6" -> 6 [] c = "7" -> 7 [] c = "8" -> 8 [] c = "9" -> 9

RECURSIVE Decimal(_, _)
Decimal(chars, acc) ==
  IF chars = <<>> THEN acc
  ELSE Decimal(Tail(chars), 10 * acc + DigitValue(Head(chars)))

RECURSIVE TrimLeft(_)
TrimLeft(chars) ==
  IF chars # <<>> /\ Head(chars) = " " THEN TrimLeft(Tail(chars)) ELSE chars

RECURSIVE TrimRight(_)
TrimRight(chars) ==
  IF chars # <<>> /\ chars[Len(chars)] = " "
  THEN TrimRight(SubSeq(chars, 1, Len(chars) - 1))
  ELSE chars

\* Number(value) of a string: blank is 0, decimal digits are their value,
\* anything else is NaN
Number(chars) ==
  LET t == TrimRight(TrimLeft(chars)) IN
  IF t = <<>> THEN Num(0)
  ELSE IF \A i \in 1..Len(t) : t[i] \in Digits THEN Num(Decimal(t, 0))
  ELSE NaN

-----------------------------------------------------------------------------
(* The validation schema: the password and agreeToTerms rules of            *)
(* userFormSchema.  parse lists the violations in the order of the rules.   *)

Fields == {"password", "agreeToTerms"}

Issue(path, message) == [path |-> path, message |-> message]

\* z.string().min(8, ..).regex(/[A-Z]/, ..).regex(/[0-9]/, ..)
PasswordIssues(values) ==
  IF "password" \notin DOMAIN values
  THEN <<Issue(<<"password">>, "Required")>>
  ELSE LET v == values["password"] IN
    IF v.kind # "string"
    THEN <<Issue(<<"password">>, "Expected string, received " \o v.kind)>>
    ELSE (IF Len(v.s) < 8
          THEN <<Issue(<<"password">>, "Password must be at least 8 characters")>>
          ELSE <<>>)
      \o (IF \E i \in 1..Len(v.s) : v.s[i] \in UpperCase
          THEN <<>>
          ELSE <<Issue(<<"password">>,
                       "Password must contain at least one uppercase letter")>>)
      \o (IF \E i \in 1..Len(v.s) : v.s[i] \in Digits
          THEN <<>>
          ELSE <<Issue(<<"password">>, "Password must contain at least one number")>>)

\* z.boolean().refine(val => val === true, ..)
AgreeToTermsIssues(values) ==
  IF "agreeToTerms" \notin DOMAIN values
  THEN <<Issue(<<"agreeToTerms">>, "Required")>>
  ELSE LET v == values["agreeToTerms"] IN
    IF v.kind # "boolean"
    THEN <<Issue(<<"agreeToTerms">>, "Expected boolean, received " \o v.kind)>>
    ELSE IF v.b THEN <<>>
    ELSE <<Issue(<<"agreeToTerms">>, "You must agree to the terms and conditions")>>

\* error.errors of the ZodError that schema.parse(values) throws; <<>> when it returns
SchemaIssues(values) == PasswordIssues(values) \o AgreeToTermsIssues(values)

\* the violations of a schema whose one rule is a refinement of the whole
\* object (the terms are agreed to): its violation has an empty path
RefinedIssues(values) ==
  IF "agreeToTerms" \in DOMAIN values /\ values["agreeToTerms"] = Bool(TRUE)
  THEN <<>>
  ELSE <<Issue(<<>>, "You must agree to the terms and conditions")>>

\* the schemas a form is configured with: the sample form's, one with an
\* object-level refinement, and one whose rule throws an error of its own
\* instead of reporting a violation
SchemaSet == {"userFormSchema", "refined", "throwing"}

Returned == [threw |-> "none", errors |-> <<>>]

ThrewZodError(issues) == [threw |-> "ZodError", errors |-> issues]

ThrewError == [threw |-> "Error", errors |-> <<>>]

\* schemaRef.current.parse(values): returns, or throws a ZodError that holds
\* the violations, or throws something else
Parse(values) ==
  CASE config.schema = "userFormSchema" ->
         IF SchemaIssues(values) = <<>> THEN Returned
         ELSE ThrewZodError(SchemaIssues(values))
    [] config.schema = "refined" ->
         IF RefinedIssues(values) = <<>> THEN Returned
         ELSE ThrewZodError(RefinedIssues(values))
    [] config.schema = "throwing" ->
         IF RefinedIssues(values) = <<>> THEN Returned ELSE ThrewError

\* err.path[0], undefined for an empty path
PathHead(err) == IF err.path = <<>> THEN Undefined ELSE Msg(err.path[1])

-----------------------------------------------------------------------------
(* validateWithSchema *)

\* error.errors.forEach((err) => { if (path) fieldErrors[path] = err.message })
RECURSIVE CollectFieldErrors(_, _)
CollectFieldErrors(issues, fieldErrors) ==
  IF issues = <<>> THEN fieldErrors
  ELSE LET err == Head(issues)
           path == PathHead(err)
       IN CollectFieldErrors(Tail(issues),
            IF Truthy(path)
            THEN Put(fieldErrors, path.text, Msg(err.message))
            ELSE fieldErrors)

\* variant: an error that is not a ZodError is swallowed, as setFieldValue does
validateWithSchemaSwallowing(values) ==
  IF ~config.validationSchema \/ Parse(values).threw # "ZodError"
  THEN [isValid |-> TRUE, fieldErrors |-> EmptyObject]
  ELSE [isValid |-> FALSE,
        fieldErrors |-> CollectFieldErrors(Parse(values).errors, EmptyObject)]

validateWithSchema(values) ==
  IF ~config.validationSchema
  THEN [isValid |-> TRUE, fieldErrors |-> EmptyObject]
  ELSE LET parsed == Parse(values) IN
    CASE parsed.threw = "none" -> [isValid |-> TRUE, fieldErrors |-> EmptyObject]
      [] parsed.threw = "ZodError" ->
           [isValid |-> FALSE,
            fieldErrors |-> CollectFieldErrors(parsed.errors, EmptyObject)]
      [] parsed.threw = "Error" -> [isValid |-> FALSE, fieldErrors |-> EmptyObject]

-----------------------------------------------------------------------------
(* The state and the updaters handed to setFormState *)

\* the argument of useState, and of setFormState in resetForm
InitialFormState(initialValues) ==
  [values |-> initialValues,
   errors |-> EmptyObject,
   touched |-> [k \in {} |-> TRUE],
   isSubmitting |-> FALSE,
   isValid |-> TRUE,
   submitCount |-> 0,
   submitError |-> Undefined]

\* variant: resetForm forgets to clear submitError
ResetStateKeepingError ==
  [InitialFormState(rendered.initialValues) EXCEPT !.submitError = formState.submitError]

\* variant: resetForm keeps the initialValues of the first render
ResetStateOriginal == InitialFormState(config.initialValues)

\* the state resetForm sets: initialValues is the one its closure captured
ResetState == InitialFormState(rendered.initialValues)

\* variant: the result of the validation is not looked at
ShouldInvokeUnchecked(result) == config.onSubmit

\* if (!isValid || !onSubmitRef.current) return
ShouldInvoke(result) == result.isValid /\ config.onSubmit

\* variant: the last violation of the field is kept
RECURSIVE FindLastFieldError(_, _)
FindLastFieldError(issues, field) ==
  IF issues = <<>> THEN Undefined
  ELSE LET later == FindLastFieldError(Tail(issues), field) IN
       IF later # Undefined THEN later
       ELSE IF PathHead(Head(issues)) = Msg(field) /\ Head(issues).message # ""
            THEN Msg(Head(issues).message)
            ELSE Undefined

\* error.errors.find((err) => err.path[0] === field)?.message || undefined
RECURSIVE FindFieldError(_, _)
FindFieldError(issues, field) ==
  IF issues = <<>> THEN Undefined
  ELSE IF PathHead(Head(issues)) = Msg(field)
       THEN (IF Head(issues).message # "" THEN Msg(Head(issues).message) ELSE Undefined)
       ELSE FindFieldError(Tail(issues), field)

\* variant: the messages of the other fields are not inspected
HasErrorsIgnored(errors) == FALSE

\* variant: Object.keys(updatedErrors).length > 0
HasErrorsKeys(errors) == DOMAIN errors # {}

\* Object.values(updatedErrors).some((error) => !!error)
HasErrors(errors) == \E k \in DOMAIN errors : Truthy(errors[k])

\* variant: the errors are recomputed from the violations of the new values
SetFieldValueUpdaterRevalidating(prev, field, value) ==
  LET newValues == Put(prev.values, field, value)
      result == validateWithSchema(newValues)
  IN [prev EXCEPT !.values = newValues,
                  !.errors = result.fieldErrors,
                  !.isValid = result.isValid]

\* the updater of setFieldValue
SetFieldValueUpdater(prev, field, value) ==
  LET newValues == Put(prev.values, field, value)
      parsed == Parse(newValues)
  IN
  IF config.validationSchema
  THEN CASE parsed.threw = "none" ->
              LET updatedErrors == Put(prev.errors, field, Undefined) IN
              [prev EXCEPT !.values = newValues,
                           !.errors = updatedErrors,
                           !.isValid = ~HasErrors(updatedErrors)]
         [] parsed.threw = "ZodError" ->
              LET updatedErrors ==
                    Put(prev.errors, field, FindFieldError(parsed.errors, field))
              IN [prev EXCEPT !.values = newValues,
                              !.errors = updatedErrors,
                              !.isValid = FALSE]
         [] parsed.threw = "Error" -> [prev EXCEPT !.values = newValues]
  ELSE [prev EXCEPT !.values = newValues]

\* the updater of setFieldTouched
SetFieldTouchedUpdater(prev, field, isTouched) ==
  [prev EXCEPT !.touched = Put(prev.touched, field, isTouched)]

\* variant: the given object replaces the values
SetValuesUpdaterReplacing(prev, values) == [prev EXCEPT !.values = values]

\* the updater of setValues
SetValuesUpdater(prev, values) ==
  [prev EXCEPT !.values = Merge(prev.values, values)]

\* variant: the fresh mapping is merged over the recorded errors
ValidateFormUpdaterMerging(prev, result) ==
  [prev EXCEPT !.errors = Merge(prev.errors, result.fieldErrors),
               !.isValid = result.isValid]

\* the updater of validateForm
ValidateFormUpdater(prev, result) ==
  [prev EXCEPT !.errors = result.fieldErrors, !.isValid = result.isValid]

\* variant: an attempt made during a submission is not counted
SubmitAttemptUpdaterIdle(prev) ==
  [prev EXCEPT !.submitCount = IF prev.isSubmitting THEN prev.submitCount
                                ELSE prev.submitCount + 1,
               !.touched = [k \in DOMAIN prev.values |-> TRUE]]

\* variant: the fields of the values of the last render are marked
SubmitAttemptUpdaterRendered(prev) ==
  [prev EXCEPT !.submitCount = prev.submitCount + 1,
               !.touched = [k \in DOMAIN rendered.values |-> TRUE]]

\* the first updater of handleSubmit
SubmitAttemptUpdater(prev) ==
  [prev EXCEPT !.submitCount = prev.submitCount + 1,
               !.touched = [k \in DOMAIN prev.values |-> TRUE]]

\* variant: the error of the earlier submission is left in place
SubmittingUpdaterKeeping(prev) == [prev EXCEPT !.isSubmitting = TRUE]

\* the updater that precedes the call of onSubmit
SubmittingUpdater(prev) ==
  [prev EXCEPT !.isSubmitting = TRUE, !.submitError = Undefined]

\* variant: the flag is left set after the promise resolved
ResolvedUpdaterKeeping(prev) == prev

\* the updater after onSubmit has resolved
ResolvedUpdater(prev) == [prev EXCEPT !.isSubmitting = FALSE]

\* variant: the message is read off whatever was thrown
SubmitErrorTextAny(error) ==
  IF error.hasMessage THEN error.message ELSE "Form submission failed"

\* error instanceof Error ? error.message : "Form submission failed"
SubmitErrorText(error) ==
  IF error.instanceOfError THEN error.message ELSE "Form submission failed"

\* the updater of the catch block
RejectedUpdater(prev, error) ==
  [prev EXCEPT !.isSubmitting = FALSE, !.submitError = Msg(SubmitErrorText(error))]

\* variant: a cleared numeric input is parsed like any other
FieldValueOfParsed(target) ==
  IF target.type = "checkbox" THEN Bool(target.checked)
  ELSE IF target.type = "number" THEN Number(target.value)
       ELSE Str(target.value)

\* the coercion of handleChange
FieldValueOf(target) ==
  IF target.type = "checkbox" THEN Bool(target.checked)
  ELSE IF target.type = "number"
       THEN (IF target.value = <<>> THEN Str(<<>>) ELSE Number(target.value))
       ELSE Str(target.value)

-----------------------------------------------------------------------------
(* The inputs the operations are called with *)

BlankValues == [k \in Fields |-> IF k = "password" THEN Str(<<>>) ELSE Bool(FALSE)]

FilledValues ==
  [k \in Fields |->
     IF k = "password" THEN Str(<<"P", "a", "s", "s", "w", "0", "r", "d">>)
     ELSE Bool(TRUE)]

\* config.initialValues of the renders after the first, which passes BlankValues
InitialValuesSet == {BlankValues, FilledValues}

\* the arguments of setFieldValue
FieldValueSet ==
  {<<"password", Str(<<>>)>>,
   <<"password", Str(<<"P", "a", "s", "s", "w", "0", "r", "d">>)>>,
   <<"agreeToTerms", Bool(TRUE)>>,
   <<"agreeToTerms", Bool(FALSE)>>}

Target(name, type, value, checked) ==
  [name |-> name, type |-> type, value |-> value, checked |-> checked]

\* e.target of the change events
ChangeTargetSet ==
  {Target("password", "password", <<"P", "a", "s", "s", "w", "0", "r", "d">>, FALSE),
   Target("password", "number", <<>>, FALSE),
   Target("agreeToTerms", "checkbox", <<"o", "n">>, TRUE)}

\* e.target of the change events of a form with numeric and select inputs
InputTargetSet ==
  ChangeTargetSet \cup
  {Target("password", "number", <<"1", "2">>, FALSE),
   Target("password", "number", <<"1", "e">>, FALSE),
   Target("password", "number", <<" ">>, FALSE),
   Target("agreeToTerms", "checkbox", <<"o", "n">>, FALSE),
   Target("agreeToTerms", "select-one", <<"o", "n">>, FALSE)}

\* the arguments of setValues
PartialValuesSet ==
  {FilledValues,
   [k \in {"password"} |-> Str(<<"P", "a", "s", "s", "w", "0", "r", "d">>)],
   [k \in {"agreeToTerms"} |-> Bool(FALSE)]}

\* the arguments of setFieldTouched
TouchedSet == {<<"password", FALSE>>}

\* e.target.name of the blur events
BlurSet == {"password"}

Failure(instanceOfError, hasMessage, message) ==
  [instanceOfError |-> instanceOfError, hasMessage |-> hasMessage, message |-> message]

\* what onSubmit rejects with: new Error("network down"), new Error(),
\* the object { message: "network down" }, and the string "timeout"
FailureSet ==
  {Failure(TRUE, TRUE, "network down"),
   Failure(TRUE, FALSE, ""),
   Failure(FALSE, TRUE, "network down"),
   Failure(FALSE, FALSE, "")}

\* what the last step did: the operation, its argument, what validation
\* returned, whether onSubmit was called and with which values
Did(op, arg, ok, invoked, passed) ==
  [op |-> op, arg |-> arg, ok |-> ok, invoked |-> invoked, passed |-> passed]

-----------------------------------------------------------------------------
(* The operations *)

\* the first render: config is the configuration useForm is constructed with
\* (validationSchema and onSubmit tell whether one is configured)
Init ==
  /\ config \in [initialValues : {BlankValues},
                 validationSchema : BOOLEAN,
                 schema : {"userFormSchema"},
                 onSubmit : BOOLEAN]
  /\ formState = InitialFormState(config.initialValues)
  /\ rendered = [values |-> config.initialValues, initialValues |-> config.initialValues]
  /\ inFlight = 0
  /\ submitCalls = 0
  /\ last = Did("useForm", <<>>, TRUE, FALSE, EmptyObject)

\* the component renders again: the closures capture the state and the
\* configuration of this render
Render(initialValues) ==
  /\ rendered' = [values |-> formState.values, initialValues |-> initialValues]
  /\ last' = Did("render", <<>>, TRUE, FALSE, EmptyObject)
  /\ UNCHANGED <<formState, config, inFlight, submitCalls>>

SetFieldValue(field, value) ==
  /\ formState' = SetFieldValueUpdater(formState, field, value)
  /\ last' = Did("setFieldValue", <<field, value>>, TRUE, FALSE, EmptyObject)
  /\ UNCHANGED <<rendered, config, inFlight, submitCalls>>

HandleChange(target) ==
  /\ formState' = SetFieldValueUpdater(formState, target.name, FieldValueOf(target))
  /\ last' = Did("handleChange", target, TRUE, FALSE, EmptyObject)
  /\ UNCHANGED <<rendered, config, inFlight, submitCalls>>

SetFieldTouched(field, isTouched) ==
  /\ formState' = SetFieldTouchedUpdater(formState, field, isTouched)
  /\ last' = Did("setFieldTouched", <<field, isTouched>>, TRUE, FALSE, EmptyObject)
  /\ UNCHANGED <<rendered, config, inFlight, submitCalls>>

HandleBlur(name) ==
  /\ formState' = SetFieldTouchedUpdater(formState, name, TRUE)
  /\ last' = Did("handleBlur", name, TRUE, FALSE, EmptyObject)
  /\ UNCHANGED <<rendered, config, inFlight, submitCalls>>

SetValues(values) ==
  /\ formState' = SetValuesUpdater(formState, values)
  /\ last' = Did("setValues", values, TRUE, FALSE, EmptyObject)
  /\ UNCHANGED <<rendered, config, inFlight, submitCalls>>

ValidateForm ==
  LET result == validateWithSchema(rendered.values) IN
  /\ formState' = ValidateFormUpdater(formState, result)
  /\ last' = Did("validateForm", <<>>, result.isValid, FALSE, EmptyObject)
  /\ UNCHANGED <<rendered, config, inFlight, submitCalls>>

ResetForm ==
  /\ formState' = ResetState
  /\ submitCalls' = 0
  /\ last' = Did("resetForm", <<>>, TRUE, FALSE, EmptyObject)
  /\ UNCHANGED <<rendered, config, inFlight>>

\* handleSubmit up to its await
HandleSubmit ==
  LET result == validateWithSchema(rendered.values)
      validated == ValidateFormUpdater(SubmitAttemptUpdater(formState), result)
      invoke == ShouldInvoke(result)
  IN
  /\ formState.submitCount < MaxSubmitCount
  /\ inFlight < MaxInFlight
  /\ formState' = IF invoke THEN SubmittingUpdater(validated) ELSE validated
  /\ inFlight' = IF invoke THEN inFlight + 1 ELSE inFlight
  /\ submitCalls' = submitCalls + 1
  /\ last' = Did("handleSubmit", <<>>, result.isValid, invoke,
                 IF invoke THEN rendered.values ELSE EmptyObject)
  /\ UNCHANGED <<rendered, config>>

\* the promise of onSubmit resolves: handleSubmit runs on after its await
SubmitResolved ==
  /\ inFlight > 0
  /\ formState' = ResolvedUpdater(formState)
  /\ inFlight' = inFlight - 1
  /\ last' = Did("resolved", <<>>, TRUE, FALSE, EmptyObject)
  /\ UNCHANGED <<rendered, config, submitCalls>>

\* the promise of onSubmit rejects: handleSubmit runs its catch block
SubmitRejected(error) ==
  /\ inFlight > 0
  /\ formState' = RejectedUpdater(formState, error)
  /\ inFlight' = inFlight - 1
  /\ last' = Did("rejected", error, FALSE, FALSE, EmptyObject)
  /\ UNCHANGED <<rendered, config, submitCalls>>

Next ==
  \/ \E initialValues \in InitialValuesSet : Render(initialValues)
  \/ \E fv \in FieldValueSet : SetFieldValue(fv[1], fv[2])
  \/ \E target \in ChangeTargetSet : HandleChange(target)
  \/ \E ft \in TouchedSet : SetFieldTouched(ft[1], ft[2])
  \/ \E name \in BlurSet : HandleBlur(name)
  \/ \E values \in PartialValuesSet : SetValues(values)
  \/ ValidateForm
  \/ ResetForm
  \/ HandleSubmit
  \/ SubmitResolved
  \/ \E error \in FailureSet : SubmitRejected(error)

Spec == Init /\ [][Next]_vars

\* the promise of an invocation of onSubmit settles
Settle == SubmitResolved \/ \E error \in FailureSet : SubmitRejected(error)

\* a form constructed with a submit callback
InitSubmitting == Init /\ config.onSubmit

\* the operations that write values, errors or the submission state
NextSubmitting ==
  \/ \E initialValues \in InitialValuesSet : Render(initialValues)
  \/ \E fv \in FieldValueSet : SetFieldValue(fv[1], fv[2])
  \/ \E values \in PartialValuesSet : SetValues(values)
  \/ ValidateForm
  \/ ResetForm
  \/ HandleSubmit
  \/ Settle

\* the form with a submit callback, every promise of which settles at some time
SpecSettling == InitSubmitting /\ [][NextSubmitting]_vars /\ WF_vars(Settle)

\* a form constructed with a schema other than the sample form's
InitSchemas ==
  /\ config \in [initialValues : {BlankValues},
                 validationSchema : {TRUE},
                 schema : SchemaSet \ {"userFormSchema"},
                 onSubmit : BOOLEAN]
  /\ formState = InitialFormState(config.initialValues)
  /\ rendered = [values |-> config.initialValues, initialValues |-> config.initialValues]
  /\ inFlight = 0
  /\ submitCalls = 0
  /\ last = Did("useForm", <<>>, TRUE, FALSE, EmptyObject)

SpecSchemas == InitSchemas /\ [][NextSubmitting]_vars

\* the arguments of setValues of a form with an optional field (role), which
\* the initial values leave out
AddingValuesSet ==
  {FilledValues, [k \in {"role"} |-> Str(<<"a">>)]}

\* the form submitted while fields are added to its values
NextAdding ==
  \/ \E initialValues \in InitialValuesSet : Render(initialValues)
  \/ \E values \in AddingValuesSet : SetValues(values)
  \/ SetFieldValue("role", Str(<<>>))
  \/ \E ft \in TouchedSet : SetFieldTouched(ft[1], ft[2])
  \/ ResetForm
  \/ HandleSubmit
  \/ Settle

SpecAdding == Init /\ [][NextAdding]_vars

\* a form constructed with any of the schemas, or with none
InitAnySchema == Init \/ InitSchemas

SpecAnySchema == InitAnySchema /\ [][NextSubmitting]_vars

\* the form driven by its change events alone
NextInput ==
  \/ \E initialValues \in InitialValuesSet : Render(initialValues)
  \/ \E target \in InputTargetSet : HandleChange(target)
  \/ ValidateForm
  \/ ResetForm

SpecInput == Init /\ [][NextInput]_vars

-----------------------------------------------------------------------------
(* Properties *)

\* { f : errors[f] holds a message }
FieldsWithMessage(errors) == {k \in DOMAIN errors : Truthy(errors[k])}

\* C1: submitCount equals the number of handleSubmit calls made since
\* construction or since the last resetForm, whatever their outcome and also
\* when they overlap with a submission in flight.
C1_SubmitCountCountsCalls == formState.submitCount = submitCalls

\* a second handleSubmit was called while the first submission was in flight
C1_Witness ==
  /\ last.op = "handleSubmit"
  /\ submitCalls = 2
  /\ inFlight = 2

\* C2 as stated: after a handleSubmit call whose validation failed, onSubmit
\* was not called by it and isSubmitting is false.
C2_Original ==
  (last.op = "handleSubmit" /\ ~last.ok) =>
    (~last.invoked /\ ~formState.isSubmitting)

\* C2 amended: a handleSubmit call whose validation fails does not call
\* onSubmit and leaves isSubmitting as it was (false, unless an earlier
\* submission has set it).
C2_FailedValidationNeverSubmits ==
  [][(last'.op = "handleSubmit" /\ ~last'.ok) =>
       /\ ~last'.invoked
       /\ inFlight' = inFlight
       /\ formState'.isSubmitting = formState.isSubmitting]_vars

\* handleSubmit has just failed its validation, with a callback configured
C2_Witness ==
  /\ last.op = "handleSubmit"
  /\ ~last.ok
  /\ config.onSubmit
  /\ ~formState.isSubmitting

FirstMessageFor(issues, field) ==
  LET about(i) == issues[i].path # <<>> /\ issues[i].path[1] = field
      first == CHOOSE i \in 1..Len(issues) :
                 about(i) /\ \A j \in 1..(i - 1) : ~about(j)
  IN issues[first].message

\* the fields that some violation in issues is about
FieldsIn(issues) ==
  {issues[i].path[1] : i \in {j \in 1..Len(issues) : issues[j].path # <<>>}}

\* values violate the rule of field and of no other field
ViolatesOnly(values, field) ==
  LET issues == SchemaIssues(values) IN
  /\ issues # <<>>
  /\ \A i \in 1..Len(issues) : issues[i].path # <<>> /\ issues[i].path[1] = field

\* C6 as stated: after setFieldValue(f, v) yielded values that violate the
\* rule of f alone, errors holds a message for exactly one field, f, it is
\* the first violation listed for f, and isValid is false.
C6_Original ==
  (/\ last.op = "setFieldValue"
   /\ config.validationSchema
   /\ ViolatesOnly(formState.values, last.arg[1])) =>
    /\ FieldsWithMessage(formState.errors) = {last.arg[1]}
    /\ formState.errors[last.arg[1]] =
         Msg(FirstMessageFor(SchemaIssues(formState.values), last.arg[1]))
    /\ ~formState.isValid

\* C6 amended: when setFieldValue(f, v) yields values that violate the rule
\* of f alone, afterwards errors[f] is the first violation the schema lists
\* for f and isValid is false; the entry of every other field is what it was
\* before the call, so the fields holding a message are f and those that held
\* one before (f alone when there was none).
C6_FieldErrorIsFirstViolation ==
  [][(/\ last'.op = "setFieldValue"
      /\ config.validationSchema
      /\ ViolatesOnly(formState'.values, last'.arg[1])) =>
       LET f == last'.arg[1] IN
       /\ formState'.errors[f] = Msg(FirstMessageFor(SchemaIssues(formState'.values), f))
       /\ ~formState'.isValid
       /\ DOMAIN formState'.errors = DOMAIN formState.errors \cup {f}
       /\ \A g \in DOMAIN formState.errors \ {f} :
            formState'.errors[g] = formState.errors[g]
       /\ FieldsWithMessage(formState'.errors) =
            FieldsWithMessage(formState.errors) \cup {f}]_vars

\* setFieldValue("password", "") on a form whose other field is valid: three
\* violations of password, the first is recorded and no other field has one
C6_Witness ==
  /\ last.op = "setFieldValue"
  /\ last.arg[1] = "password"
  /\ config.validationSchema
  /\ ViolatesOnly(formState.values, "password")
  /\ Len(SchemaIssues(formState.values)) = 3
  /\ FieldsWithMessage(formState.errors) = {"password"}
  /\ formState.errors["password"] = Msg("Password must be at least 8 characters")

\* C7: with a schema configured, after setFieldValue(f, v) yielded values
\* that pass the schema, errors[f] holds no message and isValid is true
\* exactly when no other field of errors holds a message.
C7_ValidFieldValueClearsError ==
  (/\ last.op = "setFieldValue"
   /\ config.validationSchema
   /\ SchemaIssues(formState.values) = <<>>) =>
    /\ last.arg[1] \notin FieldsWithMessage(formState.errors)
    /\ (formState.isValid <=>
          (FieldsWithMessage(formState.errors) \ {last.arg[1]} = {}))

\* setFieldValue made the values valid and cleared the message of its field,
\* which left no message at all
C7_Witness ==
  /\ last.op = "setFieldValue"
  /\ config.validationSchema
  /\ SchemaIssues(formState.values) = <<>>
  /\ last.arg[1] \in DOMAIN formState.errors
  /\ formState.isValid

\* C8: whenever the current values satisfy the configured schema, a call of
\* validateForm returns true and leaves errors empty and isValid true, also
\* when the values were set after the last render.
C8_Claim ==
  (/\ last.op = "validateForm"
   /\ config.validationSchema
   /\ SchemaIssues(formState.values) = <<>>) =>
    /\ last.ok
    /\ formState.errors = EmptyObject
    /\ formState.isValid

\* Number(value) of the raw values of InputTargetSet, as JavaScript evaluates it
C9_NumberOf(chars) ==
  CASE chars = <<"1", "2">> -> Num(12)
    [] chars = <<" ">> -> Num(0)
    [] chars = <<"1", "e">> -> NaN

\* the value the claim has handleChange store
C9_Coerced(target) ==
  CASE target.type = "checkbox" -> Bool(target.checked)
    [] target.type = "number" /\ target.value = <<>> -> Str(<<>>)
    [] target.type = "number" /\ target.value # <<>> -> C9_NumberOf(target.value)
    [] OTHER -> Str(target.value)

\* C9: handleChange stores in values[name] the boolean checked state for a
\* checkbox, the empty string for a numeric input whose raw value is "", the
\* parsed number for any other numeric raw value and the raw string for every
\* other kind of input, and changes the state exactly as setFieldValue does
\* with that value.
C9_HandleChangeCoerces ==
  [][last'.op = "handleChange" =>
       LET target == last'.arg
           value == C9_Coerced(target)
       IN /\ formState'.values[target.name] = value
          /\ formState' = SetFieldValueUpdater(formState, target.name, value)]_vars

\* a numeric input was cleared after it held a number: the field holds ""
C9_Witness ==
  /\ last.op = "handleChange"
  /\ last.arg.type = "number"
  /\ last.arg.value = <<>>
  /\ formState.values["password"] = Str(<<>>)
  /\ rendered.values["password"] = Num(12)

\* C10: when the schema rejects the values, the field errors that
\* validateForm and handleSubmit record map each field to the message of the
\* first violation listed for that field.
C10_Claim ==
  (/\ last.op \in {"validateForm", "handleSubmit"}
   /\ config.validationSchema
   /\ ~last.ok) =>
    LET issues == SchemaIssues(rendered.values) IN
    \A f \in FieldsIn(issues) :
      /\ f \in DOMAIN formState.errors
      /\ formState.errors[f] = Msg(FirstMessageFor(issues, f))

\* C11: with a schema configured, isValid is true exactly when the current
\* values satisfy the schema, in every reachable state, the initial one and
\* those reached by setValues and resetForm included.
C11_Claim ==
  config.validationSchema =>
    (formState.isValid <=> (SchemaIssues(formState.values) = <<>>))

\* C12: the values handleSubmit passes to onSubmit are the current values of
\* the store at the moment of the call, also when they were set after the
\* last render.
C12_Claim ==
  (last.op = "handleSubmit" /\ last.invoked) => last.passed = formState.values

\* C13: while an invocation of onSubmit is in flight isSubmitting is true,
\* under any interleaving with resetForm and with other submissions.
C13_Claim == inFlight > 0 => formState.isSubmitting

\* C14: isSubmitting is true only while an invocation of onSubmit is in
\* flight; every settlement takes exactly one invocation out of flight and
\* leaves isSubmitting false; and, as every invocation settles at some time,
\* every handleSubmit call is followed by a state with isSubmitting false.
C14_SubmittingOnlyInFlight ==
  /\ [](inFlight = 0 => ~formState.isSubmitting)
  /\ [][last'.op \in {"resolved", "rejected"} =>
          (inFlight' = inFlight - 1 /\ ~formState'.isSubmitting)]_vars
  /\ (last.op = "handleSubmit" ~> ~formState.isSubmitting)

\* the last of two overlapping invocations has settled
C14_Witness ==
  /\ last.op = "resolved"
  /\ inFlight = 0
  /\ formState.submitCount = 2
  /\ ~formState.isSubmitting

\* C15 as stated: after any call of handleSubmit the submitError of an
\* earlier failed submission is absent.
C15_Original == last.op = "handleSubmit" => formState.submitError = Undefined

\* C15 amended: submitError is cleared when a handleSubmit call passes its
\* validation and invokes onSubmit; a call whose validation fails, or that
\* has no callback to invoke, leaves submitError as it was; once absent,
\* submitError stays absent until the callback of a submission fails.
C15_SubmitErrorClearedOnInvocation ==
  [][/\ (last'.op = "handleSubmit" /\ last'.invoked) =>
          formState'.submitError = Undefined
     /\ (last'.op = "handleSubmit" /\ ~last'.invoked) =>
          formState'.submitError = formState.submitError
     /\ (formState.submitError = Undefined /\ formState'.submitError # Undefined) =>
          last'.op = "rejected"]_vars

\* a second submission was started after the first one had settled
C15_Witness ==
  /\ last.op = "handleSubmit"
  /\ last.invoked
  /\ formState.submitCount = 2
  /\ inFlight = 1
  /\ formState.submitError = Undefined

\* the members of the state other than values, errors and isValid
SubmissionState(state) ==
  <<state.touched, state.isSubmitting, state.submitCount, state.submitError>>

\* C16: setValues(partial) changes values alone, to the shallow merge of
\* partial over the previous values: the fields of partial take its values,
\* all others keep theirs; errors, isValid, touched, isSubmitting,
\* submitCount and submitError are unchanged (the schema is not run).
C16_SetValuesMergesValuesOnly ==
  [][last'.op = "setValues" =>
       LET partial == last'.arg IN
       /\ DOMAIN formState'.values = DOMAIN formState.values \cup DOMAIN partial
       /\ \A k \in DOMAIN partial : formState'.values[k] = partial[k]
       /\ \A k \in DOMAIN formState.values \ DOMAIN partial :
            formState'.values[k] = formState.values[k]
       /\ formState'.errors = formState.errors
       /\ formState'.isValid = formState.isValid
       /\ SubmissionState(formState') = SubmissionState(formState)]_vars

\* setValues gave one field a value that violates the schema: the other
\* field kept its value, no error was recorded and isValid is still true
C16_Witness ==
  /\ last.op = "setValues"
  /\ DOMAIN last.arg = {"agreeToTerms"}
  /\ config.validationSchema
  /\ formState.values["password"] = FilledValues["password"]
  /\ formState.values["agreeToTerms"] = Bool(FALSE)
  /\ formState.isValid
  /\ FieldsWithMessage(formState.errors) = {}

\* C17: validateForm replaces the whole errors mapping: after it a field
\* holds a message exactly when the validated values (those of the last
\* render) have a violation whose leading path segment is that field, so no
\* earlier message survives for a field that is now valid; isValid equals
\* the returned boolean; with no schema configured it returns true and
\* leaves errors empty.
C17_ValidateFormReplacesErrors ==
  [][last'.op = "validateForm" =>
       LET issues == SchemaIssues(rendered.values) IN
       /\ formState'.isValid = last'.ok
       /\ config.validationSchema =>
            /\ DOMAIN formState'.errors = FieldsIn(issues)
            /\ FieldsWithMessage(formState'.errors) = FieldsIn(issues)
            /\ \A f \in FieldsWithMessage(formState.errors) \ FieldsIn(issues) :
                 f \notin DOMAIN formState'.errors
            /\ last'.ok <=> issues = <<>>
       /\ ~config.validationSchema =>
            last'.ok /\ formState'.errors = EmptyObject]_vars

\* validateForm passed on the rendered values while the store, changed since
\* that render, holds values that violate the schema: errors is empty
C17_Witness ==
  /\ last.op = "validateForm"
  /\ config.validationSchema
  /\ last.ok
  /\ formState.isValid
  /\ formState.errors = EmptyObject
  /\ rendered.values = FilledValues
  /\ formState.values["agreeToTerms"] = Bool(FALSE)

\* C18: a whole-form validation failure is surfaced with isValid = false and
\* a populated errors mapping: whenever validateForm, or the validation
\* inside handleSubmit, finds the values invalid, errors afterwards holds a
\* message for at least one field, also when the violations have no leading
\* field segment or the schema fails with something other than a list of
\* violations.
C18_Claim ==
  (last.op \in {"validateForm", "handleSubmit"} /\ ~last.ok) =>
    (~formState.isValid /\ FieldsWithMessage(formState.errors) # {})

\* C19: after any call of handleSubmit, whatever its outcome, touched[f] is
\* true for every field f present in the store's values at the time of the
\* call, including fields added or changed by setFieldValue or setValues
\* since the last render.
C19_SubmitTouchesEveryField ==
  last.op = "handleSubmit" =>
    \A f \in DOMAIN formState.values :
      f \in DOMAIN formState.touched /\ formState.touched[f] = TRUE

\* handleSubmit was called on values that hold a field the last render did
\* not have, and that field is touched
C19_Witness ==
  /\ last.op = "handleSubmit"
  /\ "role" \in DOMAIN formState.values
  /\ "role" \notin DOMAIN rendered.values
  /\ formState.touched["role"] = TRUE

C21_ValidImpliesNoMessage ==
  formState.isValid => FieldsWithMessage(formState.errors) = {}

\* setFieldValue made the values pass the schema and found no message in an
\* errors mapping that holds entries: isValid is true
C21_Witness ==
  /\ last.op = "setFieldValue"
  /\ config.validationSchema
  /\ SchemaIssues(formState.values) = <<>>
  /\ DOMAIN formState.errors = Fields
  /\ formState.touched # EmptyObject
  /\ formState.isValid

\* C22: the values passed to the submit callback are the very values that the
\* validation of the same handleSubmit call checked (those of the last
\* render), so with a schema configured the callback is never invoked with
\* values that the schema does not accept, under any interleaving of
\* mutations, renders and submissions.
C22_CallbackGetsValidatedValues ==
  (last.op = "handleSubmit" /\ last.invoked) =>
    /\ last.passed = rendered.values
    /\ last.ok
    /\ config.validationSchema => Parse(last.passed) = Returned

\* the callback was invoked with the valid values of the last render while
\* the store, mutated since that render, holds values that violate the schema
C22_Witness ==
  /\ last.op = "handleSubmit"
  /\ last.invoked
  /\ config.validationSchema
  /\ last.passed = FilledValues
  /\ Parse(formState.values) # Returned
  /\ inFlight = 2

\* C23: a resetForm made while a submission is in flight is not undone by the
\* settlement of that submission: after resetForm, when the in-flight
\* callback resolves or rejects, submitError stays absent and the state stays
\* what resetForm made it.
C23_Claim ==
  [][(/\ last.op = "resetForm"
      /\ inFlight > 0
      /\ last'.op \in {"resolved", "rejected"}) =>
       /\ formState'.submitError = Undefined
       /\ formState' = formState]_vars

====
